---- MODULE Spec2Model ----
(***************************************************************************)
(* Model of the translation server: the routes of registerRoutes, the      *)
(* provider fallback of translateText, detectLanguage, and MemStorage.     *)
(*                                                                         *)
(* A request slot is one HTTP request being served.  Node runs one handler *)
(* continuation at a time, so every action is the code that runs between   *)
(* two suspension points (an await of a fetch, or of a storage promise).   *)
(* What a provider answers is chosen by the environment when the awaited   *)
(* call completes.                                                         *)
(*                                                                         *)
(* The Home page of the client is modelled next to the server: its state,  *)
(* the timer of its auto-translate effect and its requests in flight.  Its *)
(* requests are answered by the environment.                               *)
(***************************************************************************)
EXTENDS Integers, Sequences, FiniteSets, TLC

VARIABLES
    env,                  \* process.env: the two provider credentials
    req,                  \* slot -> the request being served in it
    translations,         \* MemStorage.translations, in insertion order
    currentTranslationId, \* MemStorage.currentTranslationId
    now,                  \* the clock read by new Date()
    home                  \* the Home page in the browser: its state, timers and requests

vars == <<env, req, translations, currentTranslationId, now, home>>

----------------------------------------------------------------------------
(* Bounds of the model *)

NumSlots == 2
MaxRecords == 1
MaxConcurrentRecords == 2
MaxClock == 1
MaxLen == 2
TickMs == 500
MaxIssued == 2

(* The limit the GET route passes to getRecentTranslations *)
RecentLimit == 10

(* The delay of the auto-translate timer of the Home page, in ms *)
DebounceMs == 1000

----------------------------------------------------------------------------
(* JavaScript values *)

\* Texts are sequences of characters; a character is named by a string.
\* Undefined is JavaScript's undefined (also: a missing field of a body).
Undefined == <<"undefined">>
NoLang == "undefined"

\* The characters used: two Latin letters in both cases, one Latin letter
\* without an upper-case twin in the alphabet, and one of each class that
\* detectLanguage looks for, plus a digit.
LatinChars == {"a", "A", "b", "B", "c"}
AllChars == LatinChars \cup {"1", "cyr", "ara", "cjk", "hira", "kata", "hang"}

toLowerCaseChar(c) ==
    CASE c = "A" -> "a"
      [] c = "B" -> "b"
      [] OTHER -> c

toLowerCase(s) == [i \in 1..Len(s) |-> toLowerCaseChar(s[i])]

\* a faulty variant of FalsyLang: only undefined counts, the empty string passes
FalsyLangUndefinedOnly(l) == l = NoLang

\* !x for a text or a language code: undefined and the empty string are falsy
FalsyText(t) == t = Undefined \/ t = <<>>
FalsyLang(l) == l = NoLang \/ l = ""

\* a faulty variant of OrElse: a ?? b, which keeps the empty string
OrElseNullish(l, d) == IF l = NoLang THEN d ELSE l

\* a || b
OrElse(l, d) == IF FalsyLang(l) THEN d ELSE l

----------------------------------------------------------------------------
(* Providers, in the order translateText tries them *)

Google == "google"
Microsoft == "microsoft"
Lingva == "lingva"
MyMemory == "mymemory"

ProviderOrder == <<Google, Microsoft, Lingva, MyMemory>>

\* process.env.GOOGLE_TRANSLATE_API_KEY: unset, the placeholder, or a key
GoogleKeys == {NoLang, "demo_key", "gkey"}
\* process.env.AZURE_TRANSLATOR_KEY: unset or a key
AzureKeys == {NoLang, "akey"}

\* a faulty variant of GoogleConfigured: the placeholder key is not excluded
GoogleConfiguredAnyKey(e) == e.google \notin {NoLang, ""}

\* API_KEY && API_KEY !== "demo_key"
GoogleConfigured(e) == ~FalsyLang(e.google) /\ e.google # "demo_key"

\* the Ocp-Apim-Subscription-Key header: AZURE_TRANSLATOR_KEY || 'none'
AzureHeader(e) == OrElse(e.azure, "none")

\* what a provider call sends as its credential
KeyFor(p, e) ==
    CASE p = Google -> e.google
      [] p = Microsoft -> AzureHeader(e)
      [] OTHER -> "nokey"

----------------------------------------------------------------------------
(* What a provider call can come back with.  kind "neterr": fetch rejects; *)
(* "status": response.ok is false; "ok": response.ok, and shape says how   *)
(* much of the expected JSON body is there:                                *)
(*   badjson  response.json() rejects                                      *)
(*   null     the body is JSON null                                        *)
(*   nodata   the outer container is missing ({} or [])                    *)
(*   noentry  the container holds no translation entry                     *)
(*   nofield  the entry is there without its translation text field       *)
(*   apierr   MyMemory only: responseStatus is not 200, text is there      *)
(*   text     the translation text field is there, holding `text`          *)

NetError == [kind |-> "neterr", shape |-> "-", text |-> Undefined, language |-> NoLang]
BadStatus == [kind |-> "status", shape |-> "-", text |-> Undefined, language |-> NoLang]
Malformed(shape) == [kind |-> "ok", shape |-> shape, text |-> Undefined, language |-> NoLang]
WithText(shape, t) == [kind |-> "ok", shape |-> shape, text |-> t, language |-> NoLang]
WithLanguage(l) == [kind |-> "ok", shape |-> "text", text |-> Undefined, language |-> l]
NoResponse == [kind |-> "none", shape |-> "-", text |-> Undefined, language |-> NoLang]

ShapesOf(p) ==
    CASE p = Google -> {"badjson", "null", "nodata", "noentry", "nofield"}
      [] p = Microsoft -> {"badjson", "null", "nodata", "noentry", "nofield"}
      [] p = Lingva -> {"badjson", "null", "nofield"}
      [] p = MyMemory -> {"badjson", "null", "nodata", "nofield"}

Responses(p, texts) ==
    {NetError, BadStatus}
        \cup {Malformed(s) : s \in ShapesOf(p)}
        \cup {WithText("text", t) : t \in texts}
        \cup (IF p = MyMemory THEN {WithText("apierr", t) : t \in texts} ELSE {})

\* The outcome of one try block of translateText: it returns a value, or
\* control falls through to the code after the block.
Return(v) == [ret |-> TRUE, value |-> v]
FallThrough == [ret |-> FALSE, value |-> Undefined]

\* Google: data.data.translations[0].translatedText, under response.ok.
\* A missing container or entry raises a TypeError, which the catch absorbs;
\* an entry without translatedText reads as undefined and is returned.
GoogleResult(resp) ==
    IF resp.kind # "ok" THEN FallThrough
    ELSE IF resp.shape \in {"badjson", "null", "nodata", "noentry"} THEN FallThrough
    ELSE IF resp.shape = "nofield" THEN Return(Undefined)
    ELSE Return(resp.text)

\* Microsoft: data && data[0] && data[0].translations && data[0].translations[0]
\* guards the return of data[0].translations[0].text.
MicrosoftResult(resp) ==
    IF resp.kind # "ok" THEN FallThrough
    ELSE IF resp.shape \in {"badjson", "null", "nodata", "noentry"} THEN FallThrough
    ELSE IF resp.shape = "nofield" THEN Return(Undefined)
    ELSE Return(resp.text)

\* a faulty variant of LingvaResult: the return is missing
LingvaResultNoReturn(resp) == FallThrough

\* Lingva: data && data.translation guards the return of data.translation.
LingvaResult(resp) ==
    IF resp.kind # "ok" THEN FallThrough
    ELSE IF resp.shape \in {"badjson", "null", "nofield"} THEN FallThrough
    ELSE IF FalsyText(resp.text) THEN FallThrough
    ELSE Return(resp.text)

\* a faulty variant of DiffersIgnoringCase: translated !== text
DiffersExactly(translated, text) == translated # text

\* translated.toLowerCase() !== text.toLowerCase()
DiffersIgnoringCase(translated, text) == toLowerCase(translated) # toLowerCase(text)

\* MyMemory: responseStatus === 200 && responseData && translatedText, and
\* the translation must differ from the input ignoring case.
MyMemoryResult(resp, text) ==
    IF resp.kind # "ok" THEN FallThrough
    ELSE IF resp.shape \in {"badjson", "null", "nodata", "nofield", "apierr"} THEN FallThrough
    ELSE IF FalsyText(resp.text) THEN FallThrough
    ELSE IF DiffersIgnoringCase(resp.text, text) THEN Return(resp.text)
    ELSE FallThrough

----------------------------------------------------------------------------
(* Request slots *)

NoResult == [tag |-> "none", value |-> Undefined]
Returned(v) == [tag |-> "return", value |-> v]
Thrown == [tag |-> "throw", value |-> Undefined]

NoBody == [tag |-> "none"]
ErrorBody(msg) == [tag |-> "error", error |-> msg]
TranslateBody(t, src, tgt) ==
    [tag |-> "translation", translatedText |-> t, sourceLanguage |-> src, targetLanguage |-> tgt]
LanguageBody(l) == [tag |-> "language", language |-> l]
ListBody(l) == [tag |-> "list", list |-> l]

Idle ==
    [kind |-> "idle", pc |-> "idle", text |-> Undefined, from |-> NoLang, to |-> NoLang,
     calls |-> <<>>, last |-> NoResponse, lastp |-> "-", result |-> NoResult,
     language |-> NoLang, created |-> 0,
     status |-> 0, resp |-> NoBody]

\* res.status(code).json(body): the request is answered
Answer(q, code, body) == [q EXCEPT !.pc = "done", !.status = code, !.resp = body]

\* a fetch to provider p is issued and awaited; calls is the log of the
\* request's outbound calls, each with the credential sent and how it ended
CallProvider(q, p, e) ==
    [q EXCEPT !.pc = p,
              !.calls = Append(@, [p |-> p, key |-> KeyFor(p, e), outcome |-> "pending"])]

\* how a call ended, for the log
OutcomeOf(resp) ==
    CASE resp.kind = "neterr" -> "neterr"
      [] resp.kind = "status" -> "status"
      [] resp.shape = "apierr" -> "apierr"
      [] resp.shape # "text" -> "missing"
      [] resp.text = <<>> -> "empty"
      [] OTHER -> "text"

\* the awaited call of the slot has completed with resp
Received(q, resp) ==
    [q EXCEPT !.last = resp, !.lastp = q.pc,
              !.calls[Len(q.calls)].outcome = OutcomeOf(resp)]

Slots == DOMAIN req

----------------------------------------------------------------------------
(* MemStorage *)

\* Map.set(id, rec) on a Map kept in insertion order: an existing key keeps
\* its place, a new key goes last
MapSet(m, id, rec) ==
    IF \E i \in 1..Len(m) : m[i].id = id
    THEN [i \in 1..Len(m) |-> IF m[i].id = id THEN rec ELSE m[i]]
    ELSE Append(m, rec)

\* a faulty variant of CounterAfter: the counter is read and not incremented
CounterKept(counter) == counter

\* const id = this.currentTranslationId++ : the id taken, and the counter after
TakenId(counter) == counter
CounterAfter(counter) == counter + 1

\* the record createTranslation builds: { ...insertTranslation, id, createdAt }
NewTranslation(insert, id, date) ==
    [id |-> id, sourceText |-> insert.sourceText, translatedText |-> insert.translatedText,
     sourceLanguage |-> insert.sourceLanguage, targetLanguage |-> insert.targetLanguage,
     createdAt |-> date]

\* Array.prototype.sort with (a, b) => b.createdAt - a.createdAt: a stable
\* sort, newest createdAt first; x goes behind every element that is not older
RECURSIVE InsertByDate(_, _)
InsertByDate(sorted, x) ==
    IF sorted = <<>> THEN <<x>>
    ELSE IF Head(sorted).createdAt - x.createdAt < 0
         THEN <<x>> \o sorted
         ELSE <<Head(sorted)>> \o InsertByDate(Tail(sorted), x)

RECURSIVE SortByDate(_)
SortByDate(s) ==
    IF s = <<>> THEN <<>>
    ELSE InsertByDate(SortByDate(SubSeq(s, 1, Len(s) - 1)), s[Len(s)])

\* slice(0, limit)
Slice(s, limit) == SubSeq(s, 1, IF limit < Len(s) THEN limit ELSE Len(s))

GetRecentTranslations(m, limit) == Slice(SortByDate(m), limit)

----------------------------------------------------------------------------
(* detectLanguage's fallback: character classes, tested in a fixed order *)

Has(text, class) == \E i \in 1..Len(text) : text[i] \in class

\* a faulty variant of HeuristicLanguage: kana is tested before the ideographs
HeuristicLanguageKanaFirst(text) ==
    IF Has(text, {"hira", "kata"}) THEN "ja"
    ELSE IF Has(text, {"cjk"}) THEN "zh"
    ELSE IF Has(text, {"hang"}) THEN "ko"
    ELSE IF Has(text, {"cyr"}) THEN "ru"
    ELSE IF Has(text, {"ara"}) THEN "ar"
    ELSE "en"

HeuristicLanguage(text) ==
    IF Has(text, {"cjk"}) THEN "zh"
    ELSE IF Has(text, {"hira", "kata"}) THEN "ja"
    ELSE IF Has(text, {"hang"}) THEN "ko"
    ELSE IF Has(text, {"cyr"}) THEN "ru"
    ELSE IF Has(text, {"ara"}) THEN "ar"
    ELSE IF Has(text, LatinChars) THEN "en"
    ELSE "en"

DetectShapes == {"badjson", "nodata", "noentry", "nofield"}

DetectResponses(langs) ==
    {NetError, BadStatus} \cup {Malformed(s) : s \in DetectShapes}
        \cup {WithLanguage(l) : l \in langs}

\* Google detection: data.data.detections[0][0].language under response.ok;
\* a TypeError on a missing level is caught and the heuristic takes over
GoogleDetectResult(resp) ==
    IF resp.kind # "ok" THEN FallThrough
    ELSE IF resp.shape \in {"badjson", "nodata", "noentry"} THEN FallThrough
    ELSE Return(resp.language)

----------------------------------------------------------------------------
(* The routes.  Each action is one continuation of a handler. *)

Providers == {ProviderOrder[i] : i \in 1..Len(ProviderOrder)}

\* translate requests that may still create a record
InFlight == {r \in Slots : req[r].kind = "translate" /\ req[r].pc \in Providers}

\* translateText up to its first await: Google when its key is usable,
\* otherwise straight to Microsoft
EnterTranslateText(q, e) ==
    IF GoogleConfigured(e) THEN CallProvider(q, Google, e) ELSE CallProvider(q, Microsoft, e)

\* POST /api/translate after translateText has returned v: the record is
\* created (createTranslation runs to its end without suspending) and the
\* handler awaits the storage promise
StoreTranslation(r, q, v) ==
    LET id == TakenId(currentTranslationId)
        rec == NewTranslation([sourceText |-> q.text, translatedText |-> v,
                               sourceLanguage |-> OrElse(q.from, "auto"),
                               targetLanguage |-> q.to], id, now)
    IN  /\ translations' = MapSet(translations, id, rec)
        /\ currentTranslationId' = CounterAfter(currentTranslationId)
        /\ req' = [req EXCEPT ![r] = [q EXCEPT !.pc = "stored", !.result = Returned(v),
                                                !.created = id]]

\* a faulty variant of FailTranslation: the input text is handed back as the
\* translation when every provider has failed
FailTranslationEcho(r, q) == StoreTranslation(r, q, q.text)

\* a faulty variant of FailTranslation: an id is taken before the outcome
\* of translateText is known
FailTranslationTakesId(r, q) ==
    /\ req' = [req EXCEPT ![r] =
                  Answer([q EXCEPT !.result = Thrown], 500, ErrorBody("Translation failed"))]
    /\ currentTranslationId' = CounterAfter(currentTranslationId)
    /\ UNCHANGED translations

\* translateText throws after the last provider; the route's catch answers
FailTranslation(r, q) ==
    /\ req' = [req EXCEPT ![r] =
                  Answer([q EXCEPT !.result = Thrown], 500, ErrorBody("Translation failed"))]
    /\ UNCHANGED <<translations, currentTranslationId>>

\* the try block of a provider ends: its value is returned, or the next
\* provider is called
AfterProvider(r, q, out, next) ==
    IF out.ret THEN StoreTranslation(r, q, out.value)
    ELSE /\ req' = [req EXCEPT ![r] = CallProvider(q, next, env)]
         /\ UNCHANGED <<translations, currentTranslationId>>

PostTranslate(r, text, from, to, cap) ==
    /\ req[r].kind = "idle"
    /\ LET q == [Idle EXCEPT !.kind = "translate", !.text = text, !.from = from, !.to = to]
       IN  IF FalsyText(text) \/ FalsyLang(to)
           THEN req' = [req EXCEPT ![r] = Answer(q, 400, ErrorBody("Missing required fields"))]
           ELSE /\ Len(translations) + Cardinality(InFlight) < cap
                /\ req' = [req EXCEPT ![r] = EnterTranslateText(q, env)]
    /\ UNCHANGED <<env, translations, currentTranslationId, now, home>>

GoogleResponds(r, resp) ==
    /\ req[r].kind = "translate" /\ req[r].pc = Google
    /\ AfterProvider(r, Received(req[r], resp), GoogleResult(resp), Microsoft)
    /\ UNCHANGED <<env, now, home>>

MicrosoftResponds(r, resp) ==
    /\ req[r].kind = "translate" /\ req[r].pc = Microsoft
    /\ AfterProvider(r, Received(req[r], resp), MicrosoftResult(resp), Lingva)
    /\ UNCHANGED <<env, now, home>>

LingvaResponds(r, resp) ==
    /\ req[r].kind = "translate" /\ req[r].pc = Lingva
    /\ AfterProvider(r, Received(req[r], resp), LingvaResult(resp), MyMemory)
    /\ UNCHANGED <<env, now, home>>

MyMemoryResponds(r, resp) ==
    /\ req[r].kind = "translate" /\ req[r].pc = MyMemory
    /\ LET q == Received(req[r], resp)
           out == MyMemoryResult(resp, req[r].text)
       IN  IF out.ret THEN StoreTranslation(r, q, out.value) ELSE FailTranslation(r, q)
    /\ UNCHANGED <<env, now, home>>

\* the storage promise has resolved: res.json({translatedText, ...})
SendTranslation(r) ==
    /\ req[r].kind = "translate" /\ req[r].pc = "stored"
    /\ req' = [req EXCEPT ![r] =
                  Answer(@, 200, TranslateBody(@.result.value, OrElse(@.from, "auto"), @.to))]
    /\ UNCHANGED <<env, translations, currentTranslationId, now, home>>

\* POST /api/detect-language up to its first await of a fetch, or to its end
PostDetectLanguage(r, text) ==
    /\ req[r].kind = "idle"
    /\ LET q == [Idle EXCEPT !.kind = "detect", !.text = text]
       IN  IF FalsyText(text)
           THEN req' = [req EXCEPT ![r] = Answer(q, 400, ErrorBody("Text is required"))]
           ELSE IF GoogleConfigured(env)
           THEN req' = [req EXCEPT ![r] = CallProvider(q, "detect", env)]
           ELSE req' = [req EXCEPT ![r] =
                           Answer([q EXCEPT !.language = HeuristicLanguage(text)], 200,
                                  LanguageBody(HeuristicLanguage(text)))]
    /\ UNCHANGED <<env, translations, currentTranslationId, now, home>>

GoogleDetectResponds(r, resp) ==
    /\ req[r].kind = "detect" /\ req[r].pc = "detect"
    /\ LET q == Received(req[r], resp)
           out == GoogleDetectResult(resp)
           lang == IF out.ret THEN out.value ELSE HeuristicLanguage(q.text)
       IN  req' = [req EXCEPT ![r] =
                       Answer([q EXCEPT !.language = lang], 200, LanguageBody(lang))]
    /\ UNCHANGED <<env, translations, currentTranslationId, now, home>>

\* GET /api/translations: the list is taken when the handler runs
GetTranslations(r) ==
    /\ req[r].kind = "idle"
    /\ req' = [req EXCEPT ![r] =
                  Answer([Idle EXCEPT !.kind = "list"], 200,
                         ListBody(GetRecentTranslations(translations, RecentLimit)))]
    /\ UNCHANGED <<env, translations, currentTranslationId, now, home>>

\* an answered request is over; its slot serves the next one
Finish(r) ==
    /\ req[r].pc = "done"
    /\ req' = [req EXCEPT ![r] = Idle]
    /\ UNCHANGED <<env, translations, currentTranslationId, now, home>>

\* time passes between two readings of new Date()
Tick ==
    /\ now < MaxClock
    /\ now' = now + 1
    /\ UNCHANGED <<env, req, translations, currentTranslationId, home>>

----------------------------------------------------------------------------
(* The Home page (client/src/pages/Home.tsx).  The browser runs one event  *)
(* handler, timer callback or mutation callback at a time.  The state      *)
(* setters called by one handler are applied in one render, and the effect *)
(* of that render (the cleanup of the previous one first) has run before   *)
(* the next event is handled.                                              *)

server == <<env, req, translations, currentTranslationId, now>>

Min(a, b) == IF a < b THEN a ELSE b
Max(a, b) == IF a > b THEN a ELSE b

WhiteSpace == {" "}

RECURSIVE trimStart(_)
trimStart(s) == IF s # <<>> /\ Head(s) \in WhiteSpace THEN trimStart(Tail(s)) ELSE s

RECURSIVE trimEnd(_)
trimEnd(s) ==
    IF s # <<>> /\ s[Len(s)] \in WhiteSpace THEN trimEnd(SubSeq(s, 1, Len(s) - 1)) ELSE s

\* String.prototype.trim
trim(s) == trimEnd(trimStart(s))

\* the state after the first render.  issued numbers the calls of
\* translateMutation.mutate; shown is the number of the call whose response
\* set translatedText last, 0 when another setter did; quiet is the time
\* since the dependencies of the effect last changed, up to DebounceMs
HomeInit ==
    [sourceText |-> <<>>, translatedText |-> <<>>, sourceLanguage |-> "auto",
     targetLanguage |-> "es", detectedLanguage |-> "",
     timers |-> <<>>, inflight |-> {}, detects |-> {},
     issued |-> 0, shown |-> 0, quiet |-> 0]

\* a faulty variant of clearTimeout: the effect has no cleanup
clearTimeoutNever(timers) == timers

\* the cleanup of the effect: clearTimeout(timeoutId)
clearTimeout(timers) == <<>>

\* setTimeout(..., DebounceMs): the callback closes over the values of the
\* render that ran the effect
setTimeout(timers, h) ==
    Append(timers, [left |-> DebounceMs, text |-> h.sourceText,
                    from |-> h.sourceLanguage, to |-> h.targetLanguage])

\* the dependency list of the effect
Deps(h) == <<h.sourceText, h.sourceLanguage, h.targetLanguage>>

\* the render that takes the page from h to g, with its effect
Effect(h, g) ==
    IF Deps(g) = Deps(h) THEN g
    ELSE IF trim(g.sourceText) = <<>>
    THEN [g EXCEPT !.timers = clearTimeout(@), !.translatedText = <<>>,
                   !.shown = 0, !.quiet = 0]
    ELSE [g EXCEPT !.timers = setTimeout(clearTimeout(@), g), !.quiet = 0]

Render(g) ==
    /\ home' = Effect(home, g)
    /\ UNCHANGED server

\* the textarea's onChange
SetSourceText(t) == Render([home EXCEPT !.sourceText = t])

\* the Clear button of the source text
ClearSourceText == Render([home EXCEPT !.sourceText = <<>>])

SetSourceLanguage(l) == Render([home EXCEPT !.sourceLanguage = l])

SetTargetLanguage(l) == Render([home EXCEPT !.targetLanguage = l])

\* the Clear button of the translation
ClearTranslatedText == Render([home EXCEPT !.translatedText = <<>>, !.shown = 0])

handleClearAll ==
    Render([home EXCEPT !.sourceText = <<>>, !.translatedText = <<>>,
                        !.detectedLanguage = "", !.shown = 0])

\* the state setters of handleSwapLanguages
handleSwapLanguages(h) ==
    IF h.sourceLanguage = "auto" THEN h
    ELSE [h EXCEPT !.sourceLanguage = h.targetLanguage,
                   !.targetLanguage = h.sourceLanguage,
                   !.sourceText = h.translatedText,
                   !.translatedText = h.sourceText,
                   !.shown = 0]

\* the page after a click on the swap button
Swapped(h) == Effect(h, handleSwapLanguages(h))

\* the swap button, disabled while sourceLanguage is 'auto'
SwapLanguages ==
    /\ home.sourceLanguage # "auto"
    /\ home' = Swapped(home)
    /\ UNCHANGED server

\* translateMutation.mutate({text, from, to}): the request leaves
mutate(h, text, from, to) ==
    [h EXCEPT !.issued = @ + 1,
              !.inflight = @ \cup {[n |-> h.issued + 1, text |-> text,
                                    from |-> from, to |-> to]}]

\* translateMutation.isPending: the last call of mutate is not settled
isPending(h) == \E m \in h.inflight : m.n = h.issued

\* the Translate button
TranslateNow ==
    /\ trim(home.sourceText) # <<>> /\ ~isPending(home)
    /\ home.issued < MaxIssued
    /\ home' = mutate(home, home.sourceText, home.sourceLanguage,
                      home.targetLanguage)
    /\ UNCHANGED server

RemoveAt(s, i) == [j \in 1..(Len(s) - 1) |-> IF j < i THEN s[j] ELSE s[j + 1]]

\* the callback of the timer runs, at its time or later
TimerFires(i) ==
    /\ i \in DOMAIN home.timers
    /\ home.timers[i].left = 0
    /\ home.issued < MaxIssued
    /\ LET t == home.timers[i]
           h == mutate([home EXCEPT !.timers = RemoveAt(@, i)], t.text, t.from, t.to)
       IN  home' = IF t.from = "auto"
                   THEN [h EXCEPT !.detects = @ \cup {[n |-> h.issued, text |-> t.text]}]
                   ELSE h
    /\ UNCHANGED server

\* TickMs of time pass in the browser
HomeTick ==
    /\ \/ home.quiet < DebounceMs
       \/ \E i \in DOMAIN home.timers : home.timers[i].left > 0
    /\ home' = [home EXCEPT
                   !.quiet = Min(@ + TickMs, DebounceMs),
                   !.timers = [i \in DOMAIN @ |-> [@[i] EXCEPT !.left = Max(@ - TickMs, 0)]]]
    /\ UNCHANGED server

\* onSuccess of translateMutation, for the response to request m
TranslateSucceeds(m, text) ==
    /\ m \in home.inflight
    /\ LET data == TranslateBody(text, OrElse(m.from, "auto"), m.to)
       IN  home' = [home EXCEPT
                       !.inflight = @ \ {m},
                       !.translatedText = data.translatedText,
                       !.shown = m.n,
                       !.detectedLanguage = IF data.sourceLanguage # "auto"
                                            THEN data.sourceLanguage ELSE @]
    /\ UNCHANGED server

\* onError of translateMutation: a toast, no state is set
TranslateFails(m) ==
    /\ m \in home.inflight
    /\ home' = [home EXCEPT !.inflight = @ \ {m}]
    /\ UNCHANGED server

\* onSuccess of detectLanguageMutation
DetectSucceeds(d, language) ==
    /\ d \in home.detects
    /\ home' = [home EXCEPT !.detects = @ \ {d}, !.detectedLanguage = language]
    /\ UNCHANGED server

\* detectLanguageMutation fails: it has no onError
DetectFails(d) ==
    /\ d \in home.detects
    /\ home' = [home EXCEPT !.detects = @ \ {d}]
    /\ UNCHANGED server

----------------------------------------------------------------------------
(* Spec: the server serving one request at a time, with every kind of      *)
(* request body and every kind of provider answer.                         *)

TextInputs == {Undefined, <<>>, <<"a", "B">>}
FromInputs == {NoLang, "", "en"}
ToInputs == {NoLang, "", "es"}
AnswerTexts == {<<>>, <<"A", "b">>, <<"c">>}
AnswerLanguages == {NoLang, "fr"}

InitWith(envs, slots) ==
    /\ env \in envs
    /\ req = [r \in slots |-> Idle]
    /\ translations = <<>>
    /\ currentTranslationId = 1
    /\ now = 0
    /\ home = HomeInit

Init == InitWith([google : GoogleKeys, azure : AzureKeys], {1})

Next ==
    \/ \E r \in Slots, text \in TextInputs, from \in FromInputs, to \in ToInputs :
           PostTranslate(r, text, from, to, MaxRecords)
    \/ \E r \in Slots, resp \in Responses(Google, AnswerTexts) : GoogleResponds(r, resp)
    \/ \E r \in Slots, resp \in Responses(Microsoft, AnswerTexts) : MicrosoftResponds(r, resp)
    \/ \E r \in Slots, resp \in Responses(Lingva, AnswerTexts) : LingvaResponds(r, resp)
    \/ \E r \in Slots, resp \in Responses(MyMemory, AnswerTexts) : MyMemoryResponds(r, resp)
    \/ \E r \in Slots : SendTranslation(r)
    \/ \E r \in Slots, text \in TextInputs : PostDetectLanguage(r, text)
    \/ \E r \in Slots, resp \in DetectResponses(AnswerLanguages) : GoogleDetectResponds(r, resp)
    \/ \E r \in Slots : GetTranslations(r)
    \/ \E r \in Slots : Finish(r)
    \/ Tick

Spec == Init /\ [][Next]_vars

----------------------------------------------------------------------------
(* SpecConcurrent: NumSlots translate requests in flight at once, each     *)
(* suspended at its provider calls and resumed in any order.  A provider   *)
(* either fails on the network or answers with a translation.              *)

PlainAnswers == {NetError, WithText("text", <<"c">>)}

InitConcurrent ==
    InitWith({[google |-> "gkey", azure |-> "akey"], [google |-> NoLang, azure |-> NoLang]},
             1..NumSlots)

NextConcurrent ==
    \/ \E r \in Slots, text \in {Undefined, <<"a", "B">>} :
           PostTranslate(r, text, NoLang, "es", MaxConcurrentRecords)
    \/ \E r \in Slots, resp \in PlainAnswers : GoogleResponds(r, resp)
    \/ \E r \in Slots, resp \in PlainAnswers : MicrosoftResponds(r, resp)
    \/ \E r \in Slots, resp \in PlainAnswers : LingvaResponds(r, resp)
    \/ \E r \in Slots, resp \in PlainAnswers : MyMemoryResponds(r, resp)
    \/ \E r \in Slots : SendTranslation(r)
    \/ \E r \in Slots : Finish(r)
    \/ Tick

SpecConcurrent == InitConcurrent /\ [][NextConcurrent]_vars

----------------------------------------------------------------------------
(* SpecHistory: enough translations to fill the list of GET                *)
(* /api/translations.  No credential is set and Microsoft answers every    *)
(* call with a translation.                                                *)

InitHistory == InitWith({[google |-> NoLang, azure |-> NoLang]}, 1..NumSlots)

NextHistory ==
    \/ \E r \in Slots : PostTranslate(r, <<"a", "B">>, NoLang, "es", RecentLimit + 1)
    \/ \E r \in Slots : MicrosoftResponds(r, WithText("text", <<"c">>))
    \/ \E r \in Slots : SendTranslation(r)
    \/ \E r \in Slots : GetTranslations(r)
    \/ \E r \in Slots : Finish(r)
    \/ Tick

SpecHistory == InitHistory /\ [][NextHistory]_vars

----------------------------------------------------------------------------
(* SpecDetect: detect-language requests, one at a time, with texts of up   *)
(* to MaxLen characters of every class.                                    *)

TextsUpTo(chars, n) == UNION {[1..k -> chars] : k \in 0..n}

DetectTexts == {Undefined} \cup TextsUpTo(AllChars, MaxLen)

InitDetect == InitWith([google : GoogleKeys, azure : AzureKeys], {1})

NextDetect ==
    \/ \E r \in Slots, text \in DetectTexts : PostDetectLanguage(r, text)
    \/ \E r \in Slots, resp \in DetectResponses({"fr"}) : GoogleDetectResponds(r, resp)
    \/ \E r \in Slots : Finish(r)

SpecDetect == InitDetect /\ [][NextDetect]_vars

----------------------------------------------------------------------------
(* SpecHome: one Home page.  The user types, clears, selects languages,    *)
(* swaps and asks for a translation; the timer of the effect fires; the    *)
(* responses of the requests in flight arrive in any order.  The page      *)
(* issues at most MaxIssued translate requests.                            *)

HomeTexts == {<<>>, <<" ">>, <<"a">>}
SourceLanguages == {"auto", "en"}
TargetLanguages == {"es", "en"}
ResponseTexts == {<<"c">>}
ResponseLanguages == {"en"}

InitHome == InitWith({[google |-> NoLang, azure |-> NoLang]}, {1})

NextHome ==
    \/ \E t \in HomeTexts : SetSourceText(t)
    \/ ClearSourceText
    \/ \E l \in SourceLanguages : SetSourceLanguage(l)
    \/ \E l \in TargetLanguages : SetTargetLanguage(l)
    \/ SwapLanguages
    \/ ClearTranslatedText
    \/ handleClearAll
    \/ TranslateNow
    \/ \E i \in DOMAIN home.timers : TimerFires(i)
    \/ HomeTick
    \/ \E m \in home.inflight, text \in ResponseTexts : TranslateSucceeds(m, text)
    \/ \E m \in home.inflight : TranslateFails(m)
    \/ \E d \in home.detects, language \in ResponseLanguages : DetectSucceeds(d, language)
    \/ \E d \in home.detects : DetectFails(d)

SpecHome == InitHome /\ [][NextHome]_vars

----------------------------------------------------------------------------
(* SpecResponses: the Home page when two requests can be answered with     *)
(* different translations.                                                 *)

DistinctResponseTexts == {<<"c">>, <<"d">>}

NextResponses ==
    \/ \E t \in HomeTexts : SetSourceText(t)
    \/ ClearSourceText
    \/ \E l \in SourceLanguages : SetSourceLanguage(l)
    \/ \E l \in TargetLanguages : SetTargetLanguage(l)
    \/ SwapLanguages
    \/ ClearTranslatedText
    \/ handleClearAll
    \/ TranslateNow
    \/ \E i \in DOMAIN home.timers : TimerFires(i)
    \/ HomeTick
    \/ \E m \in home.inflight, text \in DistinctResponseTexts : TranslateSucceeds(m, text)
    \/ \E m \in home.inflight : TranslateFails(m)
    \/ \E d \in home.detects, language \in ResponseLanguages : DetectSucceeds(d, language)
    \/ \E d \in home.detects : DetectFails(d)

SpecResponses == InitHome /\ [][NextResponses]_vars

----------------------------------------------------------------------------
(* Vocabulary of the properties *)

TranslateSlots == {r \in Slots : req[r].kind = "translate"}

\* place of a provider in the fallback order
PlaceOf(p) == CHOOSE i \in 1..Len(ProviderOrder) : ProviderOrder[i] = p

\* letters that differ only in case
SameLetter(c, d) == c = d \/ {c, d} = {"a", "A"} \/ {c, d} = {"b", "B"}

SameIgnoringCase(s, t) ==
    /\ Len(s) = Len(t)
    /\ \A i \in 1..Len(s) : SameLetter(s[i], t[i])

\* the answer is a translation text that is there and not empty
IsTranslation(resp) ==
    resp.kind = "ok" /\ resp.shape = "text" /\ resp.text # Undefined /\ resp.text # <<>>

\* call i of request q succeeded: it was answered with a non-empty
\* translation (for the final provider: one that is not the input again)
SucceededCall(q, i) ==
    /\ q.calls[i].outcome = "text"
    /\ q.calls[i].p = MyMemory => ~SameIgnoringCase(q.last.text, q.text)

\* call i of request q failed in one of the three ways of a provider failure
FailedCall(q, i) == q.calls[i].outcome \in {"neterr", "status", "missing"}

\* a credential that is set, and not the placeholder
ValidKey(k) == k \notin {NoLang, "", "demo_key"}

----------------------------------------------------------------------------
(* C1: in every request, the calls follow the fixed provider order, and    *)
(* when a called provider succeeds, translateText returns exactly that     *)
(* provider's output and calls no provider after it.                       *)
C1_FirstSuccessWins ==
    \A r \in TranslateSlots :
        LET q == req[r] IN
        /\ \A i, j \in 1..Len(q.calls) :
               i < j => PlaceOf(q.calls[i].p) < PlaceOf(q.calls[j].p)
        /\ \A i \in 1..Len(q.calls) :
               SucceededCall(q, i) =>
                   /\ i = Len(q.calls)
                   /\ q.lastp = q.calls[i].p
                   /\ q.result = Returned(q.last.text)
                   /\ q.pc \in {"stored", "done"}

\* Google and Microsoft failed, Lingva answered with a translation, and
\* that translation is the result
C1_Witness ==
    \E r \in TranslateSlots :
        /\ Len(req[r].calls) = 3
        /\ req[r].calls[1].outcome = "status"
        /\ req[r].calls[2].outcome = "neterr"
        /\ req[r].calls[3].p = Lingva
        /\ req[r].calls[3].outcome = "text"
        /\ req[r].result = Returned(<<"c">>)

(* C2: a provider call that fails (network error, non-success status, or   *)
(* a body without the translation field) is not repeated and is followed   *)
(* by a call to the next provider in the order (after the final provider:  *)
(* by the terminal error); no provider is called twice in a request.       *)
C2_FailureAdvances ==
    \A r \in TranslateSlots :
        LET q == req[r] IN
        \A i \in 1..Len(q.calls) :
            /\ Cardinality({j \in 1..Len(q.calls) : q.calls[j].p = q.calls[i].p}) = 1
            /\ FailedCall(q, i) =>
                   IF q.calls[i].p = MyMemory
                   THEN q.result = Thrown
                   ELSE /\ i < Len(q.calls)
                        /\ PlaceOf(q.calls[i + 1].p) = PlaceOf(q.calls[i].p) + 1

(* C3: when every provider of the chain was called and failed, the result  *)
(* of translateText is the terminal error, no record is created, and the   *)
(* request is answered 500 {error: "Translation failed"}.                  *)
C3_AllFailedIs500 ==
    \A r \in TranslateSlots :
        LET q == req[r] IN
        (/\ \E i \in 1..Len(q.calls) : q.calls[i].p = MyMemory
         /\ \A i \in 1..Len(q.calls) :
                q.calls[i].outcome # "pending" /\ ~SucceededCall(q, i))
        => /\ q.result = Thrown
           /\ q.created = 0
           /\ q.pc = "done"
           /\ q.status = 500
           /\ q.resp = [tag |-> "error", error |-> "Translation failed"]

\* all four providers were called, none succeeded, the answer is 500
C3_Witness ==
    \E r \in TranslateSlots :
        /\ Len(req[r].calls) = 4
        /\ \A i \in 1..4 : req[r].calls[i].outcome \in {"neterr", "status", "missing"}
        /\ req[r].status = 500

(* C4 as claimed: Google is called only with a valid key, Microsoft only   *)
(* when AZURE_TRANSLATOR_KEY is set, and with no credential the first call *)
(* goes to Lingva.                                                         *)
C4_KeyedOnlyIfConfigured ==
    \A r \in TranslateSlots :
        LET q == req[r] IN
        /\ \A i \in 1..Len(q.calls) :
               /\ q.calls[i].p = Google => ValidKey(env.google)
               /\ q.calls[i].p = Microsoft => env.azure # NoLang
        /\ (~ValidKey(env.google) /\ env.azure = NoLang /\ q.calls # <<>>)
               => q.calls[1].p = Lingva

(* C4 amended: Google is called only with a valid key, and is then the     *)
(* first call; Microsoft is called whether or not AZURE_TRANSLATOR_KEY is  *)
(* set, with the key or else the placeholder 'none'; with no valid Google  *)
(* key the first call goes to Microsoft, and Lingva is called only after   *)
(* Microsoft.                                                              *)
C4_SecondaryAlwaysTried ==
    \A r \in TranslateSlots :
        LET q == req[r] IN
        /\ \A i \in 1..Len(q.calls) :
               /\ q.calls[i].p = Google => ValidKey(env.google) /\ q.calls[i].key = env.google
               /\ q.calls[i].p = Microsoft =>
                      q.calls[i].key = (IF env.azure = NoLang THEN "none" ELSE env.azure)
               /\ q.calls[i].p = Lingva => i > 1 /\ q.calls[i - 1].p = Microsoft
        /\ q.calls # <<>> =>
               q.calls[1].p = (IF ValidKey(env.google) THEN Google ELSE Microsoft)

\* no credential at all, and the first call went to Microsoft with 'none'
C4_Witness ==
    \E r \in TranslateSlots :
        /\ env.google = NoLang /\ env.azure = NoLang
        /\ Len(req[r].calls) >= 2
        /\ req[r].calls[1] = [p |-> Microsoft, key |-> "none", outcome |-> "status"]
        /\ req[r].calls[2].p = Lingva

(* C5: a translation from the final provider that equals the input up to   *)
(* letter case is never returned: the request ends in the terminal error,  *)
(* answered 500.  From the first three providers such a translation is     *)
(* returned as it is.                                                      *)
C5_FinalRejectsEcho ==
    \A r \in TranslateSlots :
        LET q == req[r] IN
        /\ (q.lastp = MyMemory /\ IsTranslation(q.last) /\ SameIgnoringCase(q.last.text, q.text))
               => q.result = Thrown /\ q.status = 500
        /\ (q.lastp = MyMemory /\ q.result.tag = "return")
               => ~SameIgnoringCase(q.result.value, q.text)
        /\ (q.lastp \in {Google, Microsoft, Lingva} /\ IsTranslation(q.last)
                /\ SameIgnoringCase(q.last.text, q.text))
               => q.result = Returned(q.last.text)

\* the final provider answered with the input in another letter case
C5_Witness ==
    \E r \in TranslateSlots :
        /\ req[r].text = <<"a", "B">>
        /\ req[r].lastp = MyMemory
        /\ req[r].last = WithText("text", <<"A", "b">>)
        /\ req[r].result = Thrown

(* C6: under any interleaving of concurrent translate requests, the N      *)
(* records created so far carry the ids 1..N in their order of creation,   *)
(* the next id is N + 1, and no two requests obtained the same id.         *)
C6_IdsSequential ==
    /\ \A i \in 1..Len(translations) : translations[i].id = i
    /\ currentTranslationId = Len(translations) + 1
    /\ \A r1, r2 \in Slots :
           (r1 # r2 /\ req[r1].created # 0 /\ req[r2].created # 0)
               => req[r1].created # req[r2].created

\* two requests were in flight together and both have created their
\* record, neither being answered yet
C6_Witness ==
    \E r1, r2 \in Slots :
        /\ r1 # r2
        /\ req[r1].pc = "stored" /\ req[r2].pc = "stored"
        /\ req[r1].created = 2 /\ req[r2].created = 1

(* C7: getRecentTranslations(k) returns min(k, N) records, newest          *)
(* createdAt first, records of one clock tick in descending id order; for  *)
(* k < N these are the k records created last, newest first.               *)
C7_RecentNewestFirst ==
    \A k \in 0..Len(translations) :
        LET out == GetRecentTranslations(translations, k)
            n == Len(translations)
        IN  /\ Len(out) = k
            /\ \A i, j \in 1..Len(out) :
                   i < j => \/ out[i].createdAt > out[j].createdAt
                            \/ /\ out[i].createdAt = out[j].createdAt
                               /\ out[i].id > out[j].id
            /\ k < n => \A i \in 1..k : out[i] = translations[n + 1 - i]

(* C8: a GET /api/translations served after a translate request has been   *)
(* answered with success, no record having been created since, lists the   *)
(* record of that request.                                                 *)
C8_ListHasLatest ==
    [][\A g, r \in Slots :
          (/\ req[g].kind = "idle" /\ req'[g].kind = "list"
           /\ req[r].kind = "translate" /\ req[r].pc = "done" /\ req[r].status = 200
           /\ req[r].created = currentTranslationId - 1)
          => \E i \in 1..Len(req'[g].resp.list) :
                 req'[g].resp.list[i].id = req[r].created]_vars

\* a required field of the request body is missing or empty
MissingField(q) ==
    \/ q.text \in {Undefined, <<>>}
    \/ q.kind = "translate" /\ q.to \in {NoLang, ""}

(* C9: a translate or detect-language request with a missing required      *)
(* field is answered 400 with an error body ("Missing required fields"     *)
(* for translate) in the step that receives it, with no provider call and  *)
(* the store left as it was; nothing but the end of the request follows.   *)
C9_MissingFieldIs400 ==
    [][\A r \in Slots :
          /\ (/\ req[r].kind = "idle"
              /\ req'[r].kind \in {"translate", "detect"}
              /\ MissingField(req'[r]))
             => /\ req'[r].pc = "done"
                /\ req'[r].status = 400
                /\ req'[r].resp.tag = "error"
                /\ req'[r].kind = "translate"
                       => req'[r].resp = [tag |-> "error", error |-> "Missing required fields"]
                /\ req'[r].calls = <<>>
                /\ translations' = translations
                /\ currentTranslationId' = currentTranslationId
          /\ (req[r].status = 400 /\ req'[r] # req[r])
             => /\ req'[r].kind = "idle"
                /\ translations' = translations
                /\ currentTranslationId' = currentTranslationId]_vars

\* a translate request with a text and an empty target language got 400
C9_Witness ==
    \E r \in Slots :
        /\ req[r].kind = "translate"
        /\ req[r].text = <<"a", "B">>
        /\ req[r].to = ""
        /\ req[r].status = 400
        /\ translations # <<>>

\* the source language of a request: "auto" when from is absent or empty
SourceOf(q) == IF q.from \in {NoLang, ""} THEN "auto" ELSE q.from

(* C10: a translate request creates a record in one step only, the one in  *)
(* which translateText returns; that record holds the request's text, the  *)
(* returned translation, the source language (from, or "auto" when from is *)
(* absent or empty) and the target language; the 200 answer follows that   *)
(* step, creates nothing, and carries the same three values.               *)
C10_RecordMatchesAnswer ==
    [][\A r \in Slots :
          (req'[r].kind = "translate" /\ req'[r] # req[r]) =>
              LET q == req'[r] IN
              IF q.pc = "stored"
              THEN /\ q.result.tag = "return"
                   /\ req[r].pc # "stored"
                   /\ translations' =
                          Append(translations,
                                 [id |-> q.created, sourceText |-> q.text,
                                  translatedText |-> q.result.value,
                                  sourceLanguage |-> SourceOf(q),
                                  targetLanguage |-> q.to, createdAt |-> now])
              ELSE IF q.status = 200
              THEN /\ req[r].pc = "stored"
                   /\ translations' = translations
                   /\ q.resp = [tag |-> "translation",
                                translatedText |-> q.result.value,
                                sourceLanguage |-> SourceOf(q),
                                targetLanguage |-> q.to]
                   /\ \E i \in 1..Len(translations) :
                          /\ translations[i].id = q.created
                          /\ translations[i].translatedText = q.resp.translatedText
                          /\ translations[i].sourceLanguage = q.resp.sourceLanguage
                          /\ translations[i].targetLanguage = q.resp.targetLanguage
                          /\ translations[i].sourceText = q.text
              ELSE translations' = translations]_vars

\* a request with an empty from was answered with source language "auto"
C10_Witness ==
    \E r \in TranslateSlots :
        /\ req[r].from = ""
        /\ req[r].status = 200
        /\ req[r].resp.sourceLanguage = "auto"
        /\ req[r].resp.translatedText = <<"c">>
        /\ Len(translations) = 1

\* the character classes of the detector with their language, by priority
ClassPriority ==
    << [chars |-> {"cjk"}, lang |-> "zh"],
       [chars |-> {"hira", "kata"}, lang |-> "ja"],
       [chars |-> {"hang"}, lang |-> "ko"],
       [chars |-> {"cyr"}, lang |-> "ru"],
       [chars |-> {"ara"}, lang |-> "ar"],
       [chars |-> {"a", "A", "b", "B", "c"}, lang |-> "en"] >>

\* the classes that have a character in the text
ClassesIn(text) ==
    {i \in 1..Len(ClassPriority) : \E k \in 1..Len(text) : text[k] \in ClassPriority[i].chars}

\* the language of the first class present, "en" when there is none
FirstClassLanguage(text) ==
    IF ClassesIn(text) = {} THEN "en"
    ELSE ClassPriority[CHOOSE i \in ClassesIn(text) : \A j \in ClassesIn(text) : i <= j].lang

\* the request was answered without a result of the external detection:
\* no key is configured, or the call ended in a network error or a
\* non-success status
AnsweredByHeuristic(q) ==
    /\ q.kind = "detect" /\ q.status = 200
    /\ q.calls = <<>> \/ q.last.kind \in {"neterr", "status"}

(* C11: the heuristic detector answers with the language of the first      *)
(* class present in the text, in the order ideographs, kana, Hangul,       *)
(* Cyrillic, Arabic, Latin, whatever else the text holds, and with en for  *)
(* a text with no character of any class.                                  *)
C11_FirstClassWins ==
    \A r \in Slots :
        AnsweredByHeuristic(req[r]) =>
            /\ req[r].language = FirstClassLanguage(req[r].text)
            /\ req[r].resp = [tag |-> "language", language |-> FirstClassLanguage(req[r].text)]

\* a text with kana in front of an ideograph was answered zh
C11_Witness ==
    \E r \in Slots :
        /\ AnsweredByHeuristic(req[r])
        /\ req[r].text = <<"hira", "cjk">>
        /\ req[r].resp = [tag |-> "language", language |-> "zh"]

(* C12: a detect-language request with a non-empty text is answered 200    *)
(* with a language code, whatever the external detection call ended with.  *)
C12_DetectAlwaysAnswers ==
    \A r \in Slots :
        (req[r].kind = "detect" /\ req[r].pc = "done" /\ req[r].text \notin {Undefined, <<>>})
            => /\ req[r].status = 200
               /\ req[r].resp.tag = "language"
               /\ req[r].resp.language \in {"zh", "ja", "ko", "ru", "ar", "en", "fr"}

(* C13: every record of the store has a non-empty sourceText and a         *)
(* non-empty translatedText, and whenever translateText returns, what it   *)
(* returns is a non-empty string.                                          *)
C13_TextsNonEmpty ==
    /\ \A i \in 1..Len(translations) :
           /\ translations[i].sourceText \notin {Undefined, <<>>}
           /\ translations[i].translatedText \notin {Undefined, <<>>}
    /\ \A r \in TranslateSlots :
           req[r].result.tag = "return" => req[r].result.value \notin {Undefined, <<>>}

(* C14: a step changes the store only by appending one record and moving   *)
(* the next id on by one, the records already there staying as they are,   *)
(* and only as the step in which a translate request obtains its           *)
(* translation, a request that is then answered 200; a request answered    *)
(* 400 or 500 has created nothing and its answer leaves the store and the  *)
(* next id as they were.                                                   *)
C14_StoreOnlyGrows ==
    [][/\ (translations' # translations \/ currentTranslationId' # currentTranslationId)
          => /\ Len(translations') = Len(translations) + 1
             /\ SubSeq(translations', 1, Len(translations)) = translations
             /\ currentTranslationId' = currentTranslationId + 1
             /\ \E r \in Slots :
                    /\ req[r].kind = "translate" /\ req[r].pc \in Providers
                    /\ req'[r].pc = "stored" /\ req'[r].result.tag = "return"
                    /\ translations'[Len(translations')].id = req'[r].created
       /\ \A r \in Slots :
              /\ (req'[r].status \in {400, 500} /\ req[r].status = 0)
                 => /\ translations' = translations
                    /\ currentTranslationId' = currentTranslationId
                    /\ req'[r].created = 0
              /\ (req[r].pc = "stored" /\ req'[r] # req[r]) => req'[r].status = 200
              /\ (req'[r].status = 200 /\ req'[r].kind = "translate" /\ req[r].status = 0)
                 => req[r].pc = "stored"]_vars

\* with a record in the store, a later translate request was answered 500
C14_Witness ==
    \E r \in TranslateSlots :
        /\ req[r].status = 500
        /\ Len(translations) = 1
        /\ currentTranslationId = 2

----------------------------------------------------------------------------
(* The Home page *)

\* the translate requests that leave in the step
Leaving == home'.inflight \ home.inflight

\* the step is the callback of a timer of the effect
ByEffect == Len(home'.timers) < Len(home.timers) /\ Leaving # {}

\* the detection requests that leave in the step
LeavingDetects == home'.detects \ home.detects

\* a timer as the effect sets it for the page h
FreshTimer(h) ==
    [left |-> DebounceMs, text |-> h.sourceText,
     from |-> h.sourceLanguage, to |-> h.targetLanguage]

\* C15: the auto-translate effect is a debounce.  At most one timer is
\* pending.  A step that changes sourceText, sourceLanguage or targetLanguage
\* sends nothing and leaves no timer but the one it has just set, for the new
\* values.  A request of the effect leaves only when the three have been
\* unchanged for DebounceMs and sourceText is not blank; it is the only
\* request of the step, it carries the current three values and it uses up
\* the timer.  A detection request leaves exactly with a request of the
\* effect made while sourceLanguage is 'auto'.
C15_Debounce ==
    [][/\ Len(home'.timers) <= 1
       /\ Deps(home') # Deps(home) =>
            /\ Leaving = {} /\ LeavingDetects = {}
            /\ \A i \in DOMAIN home'.timers : home'.timers[i] = FreshTimer(home')
       /\ \A m \in Leaving : ByEffect =>
            /\ home.quiet >= DebounceMs
            /\ trim(home.sourceText) # <<>>
            /\ <<m.text, m.from, m.to>> = Deps(home)
            /\ Leaving = {m}
            /\ home'.timers = <<>>
            /\ (LeavingDetects # {}) <=> (home.sourceLanguage = "auto")
       /\ \A d \in LeavingDetects :
            /\ LeavingDetects = {d}
            /\ d.text = home.sourceText
            /\ \E m \in Leaving : ByEffect /\ m.n = d.n
      ]_vars

\* the effect has sent a request for the text typed last, after a burst of
\* edits, together with a detection request
C15_Witness ==
    /\ home.sourceLanguage = "auto"
    /\ home.sourceText = <<"a">>
    /\ home.issued = 1
    /\ \E m \in home.inflight :
          /\ m.text = <<"a">> /\ m.from = "auto"
          /\ \E d \in home.detects : d.n = m.n

\* the translate requests whose response is handled in the step
Settled == home.inflight \ home'.inflight

\* C16: the translation shown belongs to the current source text.  While
\* sourceText is blank translatedText is empty, whatever response arrives;
\* and the response to a request older than the one whose translation is
\* shown leaves translatedText as it is.
C16_TranslationIsCurrent ==
    [][/\ trim(home'.sourceText) = <<>> => home'.translatedText = <<>>
       /\ \A m \in Settled : m.n < home.shown => home'.translatedText = home.translatedText
      ]_vars

\* what a swap is to exchange
Quad(h) == <<h.sourceLanguage, h.targetLanguage, h.sourceText, h.translatedText>>

\* C17: targetLanguage is never 'auto'.  A swap changes nothing while
\* sourceLanguage is 'auto'; otherwise it exchanges the two languages and
\* the two texts, and a second swap right after it gives back the four
\* values the page had, also when translatedText was empty.
C17_SwapTwiceRestores ==
    /\ home.targetLanguage # "auto"
    /\ home.sourceLanguage = "auto" => Quad(Swapped(home)) = Quad(home)
    /\ home.sourceLanguage # "auto" =>
         /\ Quad(Swapped(home)) = <<home.targetLanguage, home.sourceLanguage,
                                    home.translatedText, home.sourceText>>
         /\ Quad(Swapped(Swapped(home))) = Quad(home)

====
